---- MODULE Spec2Model ----
(***************************************************************************)
(* A model of server.py: the "decomposition" MCP server with its single    *)
(* tool decompose_question.  The tool binds its arguments, builds an       *)
(* OpenAI client, builds two prompts, issues one responses.parse call and  *)
(* formats the parsed result as numbered lines.                            *)
(*                                                                         *)
(* Text is modelled as a sequence of one-character strings, so that        *)
(* formatting, joining and splitting are computed rather than assumed.     *)
(* The literal sections of the system prompt are one token each.           *)
(***************************************************************************)
EXTENDS Integers, Sequences, FiniteSets, TLC

VARIABLES
    now,          \* the wall-clock date read by datetime.now()
    environ,      \* os.environ restricted to OPENAI_API_KEY: <<>> absent, <<k>> set
    defaults,     \* decompose_question.__defaults__["cutoff_date"], bound at import
    tools,        \* mcp._tool_manager._tools
    pc,           \* position of the running invocation in decompose_question
    cur,          \* the frame of the running (or last finished) invocation
    prev          \* the frame of the invocation that finished before cur

vars == <<now, environ, defaults, tools, pc, cur, prev>>

----------------------------------------------------------------------------
(* Bounds of the model. *)

\* number of midnights that pass while the server process is up
MaxTicks == 2
\* largest number of top-level subquestions the backend returns
MaxSub == 2
\* largest number of nested subquestions under one top-level subquestion
MaxNested == 2

----------------------------------------------------------------------------
(* Text. *)

NL == "\n"

Digits == <<"0", "1", "2", "3", "4", "5", "6", "7", "8", "9">>

\* str(n) for n >= 0, as the f-string fields {i} and {j} render it
RECURSIVE Decimal(_)
Decimal(n) ==
    IF n < 10 THEN <<Digits[n + 1]>>
    ELSE Decimal(n \div 10) \o <<Digits[(n % 10) + 1]>>

\* zero padding to width w, as strftime pads %Y, %m and %d
RECURSIVE ZeroPad(_, _)
ZeroPad(s, w) == IF Len(s) >= w THEN s ELSE ZeroPad(<<"0">> \o s, w)

\* datetime.strftime("%Y-%m-%d")
Strftime(d) ==
    ZeroPad(Decimal(d.year), 4) \o <<"-">> \o ZeroPad(Decimal(d.month), 2)
        \o <<"-">> \o ZeroPad(Decimal(d.day), 2)

IsLeap(y) == (y % 4 = 0 /\ y % 100 # 0) \/ y % 400 = 0

DaysInMonth(y, m) ==
    IF m = 2 THEN (IF IsLeap(y) THEN 29 ELSE 28)
    ELSE IF m \in {4, 6, 9, 11} THEN 30 ELSE 31

\* the calendar date after d
NextDay(d) ==
    IF d.day < DaysInMonth(d.year, d.month)
        THEN [d EXCEPT !.day = d.day + 1]
    ELSE IF d.month < 12
        THEN [year |-> d.year, month |-> d.month + 1, day |-> 1]
    ELSE [year |-> d.year + 1, month |-> 1, day |-> 1]

\* the date on which the server process is started
StartDate == [year |-> 2024, month |-> 12, day |-> 30]

RECURSIVE DaysAfter(_, _)
DaysAfter(d, n) == IF n = 0 THEN d ELSE NextDay(DaysAfter(d, n - 1))

\* "\n".join(lines)
RECURSIVE Join(_)
Join(ls) ==
    IF ls = <<>> THEN <<>>
    ELSE IF Len(ls) = 1 THEN ls[1]
    ELSE ls[1] \o <<NL>> \o Join(Tail(ls))

----------------------------------------------------------------------------
(* The data model: SubSubquestion, Subqestion, DecompositionResult. *)

\* question texts the backend produces; one holds a line break
Texts == {<<"a">>, <<"b", NL, "c">>}

SeqsUpTo(S, n) == UNION {[1..k -> S] : k \in 0..n}

SubSubquestion == [question : Texts]

Subqestion == [subquestions : SeqsUpTo(SubSubquestion, MaxNested), question : Texts]

DecompositionResult ==
    [original_question : Texts, subquestions : SeqsUpTo(Subqestion, MaxSub)]

----------------------------------------------------------------------------
(* Tool registration, lines 30-41. *)

FnParams == {"question", "context", "cutoff_date"}

exclude_nothing == {}

\* line 35
exclude_args == {"cutoff_date"}

\* the properties of the parameter schema FastMCP advertises for a function
SchemaProperties(params, excluded) == params \ excluded

RegisteredTools ==
    {[name |-> "decompose_question",
      tags |-> {"backtesting_supported"},
      fn_params |-> FnParams,
      parameters |-> SchemaProperties(FnParams, exclude_args)]}

----------------------------------------------------------------------------
(* The frame of one invocation. *)

NoCall ==
    [question |-> <<>>, context |-> <<>>, cutoff_date |-> <<>>,
     omitted |-> FALSE, invokedOn |-> StartDate,
     system_prompt |-> <<>>, user_prompt |-> <<>>,
     result |-> <<>>, outcome |-> "none", error |-> "none", text |-> <<>>,
     envReads |-> 0, requests |-> 0]

Init ==
    /\ now = StartDate
    /\ environ \in {<<>>, <<"sk-key">>}
    /\ defaults = [cutoff_date |-> Strftime(StartDate)]
    /\ tools = RegisteredTools
    /\ pc = "idle"
    /\ cur = NoCall
    /\ prev = NoCall

\* midnight passes while the server is up
Tick ==
    /\ pc = "idle"
    /\ now # DaysAfter(StartDate, MaxTicks)
    /\ now' = NextDay(now)
    /\ UNCHANGED <<environ, defaults, tools, pc, cur, prev>>

----------------------------------------------------------------------------
(* Inputs. *)

Questions == {<<"x">>, <<"y", "?">>}

Contexts == {<<>>, <<"k">>}

\* cutoff_date as a caller passes it: <<>> when omitted, <<d>> when given
CutoffArgs == {<<>>, <<Strftime([year |-> 2024, month |-> 1, day |-> 1])>>}

\* "mcp": an agent calling through the advertised schema; "fn": a direct call
Callers == {"mcp", "fn"}

Sub(q, nested) ==
    [subquestions |-> [j \in 1..Len(nested) |-> [question |-> nested[j]]],
     question |-> q]

\* the structured results the backend answers with in Spec
SampleResults ==
    {[original_question |-> <<"a">>, subquestions |-> <<>>],
     [original_question |-> <<"a">>,
      subquestions |-> <<Sub(<<"a">>, <<<<"a">>>>)>>],
     [original_question |-> <<"a">>,
      subquestions |-> <<Sub(<<"a">>, <<>>), Sub(<<"b", NL, "c">>, <<<<"a">>>>)>>]}

\* the ways client.responses.parse raises
BackendErrors == {"APIConnectionError", "APIStatusError", "ValidationError"}

----------------------------------------------------------------------------
(* decompose_question, lines 37-149. *)

\* lines 37-41: the call binds the arguments; an omitted cutoff_date takes the
\* default object stored on the function
Invoke(q, ctx, cd, via) ==
    /\ pc = "idle"
    /\ (via = "mcp" /\ cd # <<>>) =>
           \E t \in tools : t.name = "decompose_question" /\ "cutoff_date" \in t.parameters
    /\ prev' = cur
    /\ cur' = [NoCall EXCEPT
                  !.question = q,
                  !.context = ctx,
                  !.cutoff_date = IF cd = <<>> THEN defaults.cutoff_date ELSE cd[1],
                  !.omitted = (cd = <<>>),
                  !.invokedOn = now,
                  !.outcome = "running"]
    /\ pc' = "client"
    /\ UNCHANGED <<now, environ, defaults, tools>>

\* OpenAI(api_key=None) raises OpenAIError, as no other credential is configured
ClientNoRaise(api_key) == "running"

ClientOutcome(api_key) == IF api_key = <<>> THEN "raised" ELSE "running"

\* line 42: os.environ.get("OPENAI_API_KEY") and the client's construction
CreateClient ==
    /\ pc = "client"
    /\ LET api_key == environ
           outcome == ClientOutcome(api_key)
       IN  /\ cur' = [cur EXCEPT
                         !.envReads = @ + 1,
                         !.outcome = outcome,
                         !.error = IF outcome = "raised" THEN "OpenAIError" ELSE @]
           /\ pc' = IF outcome = "raised" THEN "idle" ELSE "prompts"
    /\ UNCHANGED <<now, environ, defaults, tools, prev>>

\* lines 44-127: an f-string with no replacement field; one token per section
SystemPrompt(question, context, cutoff_date) ==
    <<"Break down a forecasting question into subquestions ...",
      "<decomposition_strategies>", "<important_reminders>",
      "<example>", "<example>", "Output the subquestions as a nested list.">>

QuestionPrefix == <<"Q", "u", "e", "s", "t", "i", "o", "n", ":", " ">>

UserPromptWithContext(question, context) == QuestionPrefix \o question \o context

\* line 129
UserPrompt(question, context) == QuestionPrefix \o question

BuildPrompts ==
    /\ pc = "prompts"
    /\ cur' = [cur EXCEPT
                  !.system_prompt = SystemPrompt(cur.question, cur.context, cur.cutoff_date),
                  !.user_prompt = UserPrompt(cur.question, cur.context)]
    /\ pc' = "request"
    /\ UNCHANGED <<now, environ, defaults, tools, prev>>

\* lines 131-139: client.responses.parse is called
SendRequest ==
    /\ pc = "request"
    /\ cur' = [cur EXCEPT !.requests = @ + 1]
    /\ pc' = "awaiting"
    /\ UNCHANGED <<now, environ, defaults, tools, prev>>

\* lines 131-141: the call returns and output_parsed is a DecompositionResult
BackendReturns(r) ==
    /\ pc = "awaiting"
    /\ cur' = [cur EXCEPT !.result = <<r>>]
    /\ pc' = "format"
    /\ UNCHANGED <<now, environ, defaults, tools, prev>>

\* lines 131-141: the call returns and output_parsed is None
BackendUnparsed ==
    /\ pc = "awaiting"
    /\ cur' = [cur EXCEPT !.result = <<>>]
    /\ pc' = "format"
    /\ UNCHANGED <<now, environ, defaults, tools, prev>>

PcRetry == "request"

\* no try/except encloses the call: an exception leaves the function
PcAfterRaise == "idle"

\* lines 131-139: the call raises
BackendFails(e) ==
    /\ pc = "awaiting"
    /\ cur' = [cur EXCEPT !.outcome = "raised", !.error = e]
    /\ pc' = PcAfterRaise
    /\ UNCHANGED <<now, environ, defaults, tools, prev>>

Indent == <<" ", " ", " ">>

\* line 145
TopLine(i, sq) == Decimal(i) \o <<".", " ">> \o sq.question

\* lines 146-147
NestedLines(sq) ==
    [j \in 1..Len(sq.subquestions) |->
        Indent \o Decimal(j) \o <<".", " ">> \o sq.subquestions[j].question]

Front(s) == SubSeq(s, 1, Len(s) - 1)

RECURSIVE FormatLinesDedup(_)
FormatLinesDedup(subs) ==
    IF subs = <<>> THEN <<>>
    ELSE LET n == Len(subs)
         IN  IF \E i \in 1..(n - 1) : subs[i].question = subs[n].question
                 THEN FormatLinesDedup(Front(subs))
             ELSE FormatLinesDedup(Front(subs)) \o <<TopLine(n, subs[n])>>
                      \o NestedLines(subs[n])

\* lines 143-147: the list `lines` after the two loops
RECURSIVE FormatLines(_)
FormatLines(subs) ==
    IF subs = <<>> THEN <<>>
    ELSE FormatLines(Front(subs)) \o <<TopLine(Len(subs), subs[Len(subs)])>>
             \o NestedLines(subs[Len(subs)])

ReturnTextCached(ls) ==
    IF prev.outcome = "returned" /\ prev.question = cur.question
        THEN prev.text[1]
    ELSE Join(ls)

\* line 149
ReturnText(ls) == Join(ls)

ReturnValueLenient(result) ==
    IF result = <<>> THEN <<<<>>>>
    ELSE <<ReturnText(FormatLines(result[1].subquestions))>>

\* lines 141-149: <<>> when the function raises (AttributeError on None),
\* <<text>> when it returns
ReturnValue(result) ==
    IF result = <<>> THEN <<>>
    ELSE <<ReturnText(FormatLines(result[1].subquestions))>>

FormatResult ==
    /\ pc = "format"
    /\ LET value == ReturnValue(cur.result)
       IN  cur' = IF value = <<>>
                      THEN [cur EXCEPT !.outcome = "raised", !.error = "AttributeError"]
                  ELSE [cur EXCEPT !.outcome = "returned", !.text = value]
    /\ pc' = "idle"
    /\ UNCHANGED <<now, environ, defaults, tools, prev>>

Next ==
    \/ Tick
    \/ \E q \in Questions, ctx \in Contexts, cd \in CutoffArgs, via \in Callers :
           Invoke(q, ctx, cd, via)
    \/ CreateClient
    \/ BuildPrompts
    \/ SendRequest
    \/ \E r \in SampleResults : BackendReturns(r)
    \/ BackendUnparsed
    \/ \E e \in BackendErrors : BackendFails(e)
    \/ FormatResult

Spec == Init /\ [][Next]_vars

----------------------------------------------------------------------------
(* The formatter on every structured result within the bounds. *)

FormatInit ==
    /\ now = StartDate
    /\ environ = <<"sk-key">>
    /\ defaults = [cutoff_date |-> Strftime(StartDate)]
    /\ tools = RegisteredTools
    /\ pc = "format"
    /\ \E r \in DecompositionResult :
           cur = [NoCall EXCEPT
                     !.question = <<"x">>,
                     !.cutoff_date = defaults.cutoff_date,
                     !.omitted = TRUE,
                     !.system_prompt = SystemPrompt(<<"x">>, <<>>, defaults.cutoff_date),
                     !.user_prompt = UserPrompt(<<"x">>, <<>>),
                     !.result = <<r>>,
                     !.outcome = "running",
                     !.envReads = 1,
                     !.requests = 1]
    /\ prev = NoCall

FormatNext == FormatResult

SpecFormat == FormatInit /\ [][FormatNext]_vars

----------------------------------------------------------------------------
(* Helpers of the properties. *)

IsAt(text, p, s) ==
    /\ p >= 1
    /\ p + Len(s) - 1 <= Len(text)
    /\ SubSeq(text, p, p + Len(s) - 1) = s

Contains(text, s) == \E p \in 1..Len(text) : IsAt(text, p, s)

\* s occupies whole lines of text from position p: it starts where a line
\* starts and ends where a line ends
IsEntryAt(text, p, s) ==
    /\ IsAt(text, p, s)
    /\ (p = 1 \/ text[p - 1] = NL)
    /\ (p + Len(s) - 1 = Len(text) \/ text[p + Len(s)] = NL)

\* the first position from `from` on where s is an entry of text, 0 if none
RECURSIVE FindEntry(_, _, _)
FindEntry(text, s, from) ==
    IF from > Len(text) - Len(s) + 1 THEN 0
    ELSE IF IsEntryAt(text, from, s) THEN from
    ELSE FindEntry(text, s, from + 1)

\* the entries occur in text in this order, one after the other
RECURSIVE EntriesInOrder(_, _, _)
EntriesInOrder(text, entries, from) ==
    IF entries = <<>> THEN TRUE
    ELSE LET p == FindEntry(text, entries[1], from)
         IN  p # 0 /\ EntriesInOrder(text, Tail(entries), p + Len(entries[1]))

RECURSIVE SumSeq(_)
SumSeq(ns) == IF ns = <<>> THEN 0 ELSE ns[1] + SumSeq(Tail(ns))

\* str.split on the line break; the empty text has no line
RECURSIVE SplitLines(_)
SplitLines(text) ==
    IF text = <<>> THEN <<>>
    ELSE LET breaks == {p \in 1..Len(text) : text[p] = NL}
         IN  IF breaks = {} THEN <<text>>
             ELSE LET p == CHOOSE b \in breaks : \A c \in breaks : b <= c
                  IN  <<SubSeq(text, 1, p - 1)>>
                          \o (IF p = Len(text) THEN <<<<>>>>
                              ELSE SplitLines(SubSeq(text, p + 1, Len(text))))

RECURSIVE NestedBefore(_, _)
NestedBefore(subs, k) ==
    IF k <= 1 THEN 0
    ELSE Len(subs[k - 1].subquestions) + NestedBefore(subs, k - 1)

Returned(f) == f.outcome = "returned"

Finished == pc = "idle" /\ cur.outcome \in {"returned", "raised"}

----------------------------------------------------------------------------
(* The claims. *)

\* C1: whenever the backend call returned a structured result, the system or
\* the user message sent to the backend states the cutoff date of the
\* invocation.
C1PromptStatesCutoff ==
    cur.result # <<>> =>
        \/ Contains(cur.system_prompt, cur.cutoff_date)
        \/ Contains(cur.user_prompt, cur.cutoff_date)

\* C2: an invocation without a cutoff_date runs with the date of the day on
\* which it is invoked.
C2DefaultIsToday ==
    (cur.outcome # "none" /\ cur.omitted) => cur.cutoff_date = Strftime(cur.invokedOn)

\* C3: every registered tool tagged backtesting_supported has cutoff_date
\* among its function's parameters and not among the properties of its
\* advertised schema, and decompose_question is such a tool.
C3CutoffHidden ==
    /\ \A t \in tools :
           "backtesting_supported" \in t.tags =>
               "cutoff_date" \in t.fn_params /\ "cutoff_date" \notin t.parameters
    /\ \E t \in tools :
           t.name = "decompose_question" /\ "backtesting_supported" \in t.tags

C3Witness ==
    /\ \E t \in tools : "backtesting_supported" \in t.tags
    /\ Returned(cur) /\ cur.omitted

\* C4: the returned text holds the entry "i. <question>" of every top-level
\* subquestion, each on lines of its own, numbered from 1 and in the order of
\* the backend's list, and nothing but the entries of the result: none is
\* dropped, doubled or moved.
C4TopLevelInOrder ==
    Returned(cur) =>
        LET subs == cur.result[1].subquestions
            text == cur.text[1]
            top == [i \in 1..Len(subs) |->
                       Decimal(i) \o <<".", " ">> \o subs[i].question]
            nested(i) == [j \in 1..Len(subs[i].subquestions) |->
                             Indent \o Decimal(j) \o <<".", " ">>
                                 \o subs[i].subquestions[j].question]
            \* the characters of item i: its entry, and a line break and an
            \* entry for each of its nested subquestions
            size(i) == Len(top[i])
                           + SumSeq([j \in 1..Len(nested(i)) |-> 1 + Len(nested(i)[j])])
        IN  /\ EntriesInOrder(text, top, 1)
            /\ (subs # <<>> => FindEntry(text, top[1], 1) = 1)
            /\ Len(text) = (IF subs = <<>> THEN 0
                            ELSE SumSeq([i \in 1..Len(subs) |-> size(i)])
                                     + Len(subs) - 1)

C4Witness ==
    /\ Returned(cur)
    /\ Len(cur.result[1].subquestions) >= 2
    /\ cur.result[1].subquestions[1].question # cur.result[1].subquestions[2].question
    /\ cur.result[1].subquestions[1].subquestions # <<>>

\* C5: the returned text has exactly N + sum(M_k) lines: the line of item k is
\* "k. <question>", it is followed by the M_k lines "   j. <question>" of its
\* nested subquestions in their order, and then by the line of item k + 1.
C5ExactLines ==
    Returned(cur) =>
        LET subs == cur.result[1].subquestions
            L == SplitLines(cur.text[1])
            at(k) == k + NestedBefore(subs, k)
        IN  /\ Len(L) = Len(subs) + NestedBefore(subs, Len(subs) + 1)
            /\ \A k \in 1..Len(subs) :
                   /\ L[at(k)] = Decimal(k) \o <<".", " ">> \o subs[k].question
                   /\ \A j \in 1..Len(subs[k].subquestions) :
                          L[at(k) + j] = Indent \o Decimal(j) \o <<".", " ">>
                                             \o subs[k].subquestions[j].question

\* C6: an invocation calls the backend at most once, and exactly once when it
\* returns text or when the call or the handling of its response failed; it
\* calls it neither again after a failure nor after the response.
C6AtMostOneRequest ==
    /\ cur.requests <= 1
    /\ prev.requests <= 1
    /\ (Returned(cur) => cur.requests = 1)
    /\ (pc \in {"awaiting", "format"} => cur.requests = 1)
    /\ (cur.error \in BackendErrors \cup {"AttributeError"} => cur.requests = 1)

C6Witness ==
    /\ pc = "idle"
    /\ cur.error \in BackendErrors
    /\ cur.requests = 1
    /\ Returned(prev)

\* C7: a finished invocation has either returned text, formatted from a
\* structured result, or raised: a missing credential, a backend error and an
\* unparsed output raise and leave no returned text.
C7ReturnsOrRaises ==
    /\ Finished =>
           \/ Returned(cur) /\ cur.result # <<>> /\ cur.text # <<>>
                  /\ cur.error = "none" /\ environ # <<>>
           \/ cur.outcome = "raised" /\ cur.text = <<>> /\ cur.error # "none"
    /\ (cur.error # "none" => cur.outcome = "raised" /\ cur.text = <<>>)
    /\ (pc = "idle" /\ cur.requests = 1 /\ cur.result = <<>> => cur.outcome = "raised")

C7Witness ==
    /\ Finished
    /\ cur.outcome = "raised"
    /\ cur.error = "AttributeError"
    /\ cur.text = <<>>

C8CredentialInv ==
    /\ (pc = "client" => cur.envReads = 0)
    /\ (pc \in {"prompts", "request", "awaiting", "format"} => cur.envReads = 1)
    /\ (cur.requests > 0 => cur.envReads = 1)
    /\ (Finished => cur.envReads = 1)
    /\ (Finished /\ environ = <<>> =>
            cur.outcome = "raised" /\ cur.error = "OpenAIError" /\ cur.requests = 0)

\* C8: an invocation reads the credential from the environment exactly once,
\* before its request; no step writes the environment; without the credential
\* the invocation raises a configuration error and sends nothing.
C8CredentialReadOnce == [](C8CredentialInv) /\ [][environ' = environ]_vars

C8Witness ==
    /\ Finished
    /\ environ = <<>>
    /\ cur.error = "OpenAIError"
    /\ cur.envReads = 1

C10ContextIgnored ==
    /\ (cur.user_prompt # <<>> => cur.user_prompt = QuestionPrefix \o cur.question)
    /\ (prev.user_prompt # <<>> /\ cur.user_prompt # <<>> /\ prev.question = cur.question =>
            /\ prev.system_prompt = cur.system_prompt
            /\ prev.user_prompt = cur.user_prompt)
    /\ (Returned(prev) /\ Returned(cur) /\ prev.question = cur.question
            /\ prev.result = cur.result => prev.text = cur.text)

C10Witness ==
    /\ Returned(prev) /\ Returned(cur)
    /\ prev.question = cur.question
    /\ prev.context # cur.context
    /\ prev.result = cur.result
    /\ cur.requests = 1

====
